---------------------------- MODULE Spec2Model ----------------------------
(***************************************************************************)
(* The element ("node") model generated by the #[node] macro               *)
(* (macros/src/node.rs): field preparation, the Construct and Set          *)
(* protocols, the field accessors built on style-chain resolution, and the *)
(* capability vtable; and the title element's Show implementation          *)
(* (crates/typst-library/src/model/title.rs); and the tree layouter        *)
(* (src/layout/tree.rs).                                                   *)
(*                                                                         *)
(* Code the macro's output calls but that lives outside the modelled       *)
(* files (Args, Content, StyleChain, StyleMap, Property) is modelled from  *)
(* the written specification and marked so in the model map.               *)
(***************************************************************************)
EXTENDS Integers, Sequences, FiniteSets, TLC

VARIABLES
    node,       \* the prepared Node: [ok, ident, name, capable, fields]
    content,    \* the element instance at hand: [id, fields, span]
    args,       \* the argument list as the last construct/set left it
    res,        \* outcome of the last construct/set call
    links,      \* the style-chain links allocated so far: Seq([map, tail])
    out,        \* outcome of the last accessor / lookup / show call
    this,       \* the TreeLayouter: [ctx, layouter, style]
    stack,      \* the loops of layout / layout_func under way, innermost last
    cur,        \* the node or command the loop body has just handled
    result      \* the LayoutResult of layout(tree, ctx), once it returned

nodeVars == <<node, content, args, res, links, out>>
treeVars == <<this, stack, cur, result>>
vars == <<node, content, args, res, links, out, this, stack, cur, result>>

-----------------------------------------------------------------------------
(* Bounds of the model.                                                    *)

MaxFields == 2      \* fields per element type
MaxArgs == 2        \* arguments per call
MaxLinks == 3       \* style-chain links allocated in one behaviour
MaxCaps == 2        \* capabilities an element type lists

-----------------------------------------------------------------------------
(* Values, options, arguments.                                             *)

Values == {1, 2}

None == <<>>
Some(v) == <<v>>
IsSome(o) == o # <<>>
Unwrap(o) == o[1]

\* The field identifiers an element type is declared with, in declaration
\* order; "extra" is an argument name that matches no field.
FieldIdents == <<"body", "level", "tight">>
UnknownName == "extra"

\* An argument: positional when its name is the empty string.
Arg(name, value) == [name |-> name, value |-> value]
IsPositional(a) == a.name = ""

RECURSIVE SeqsUpTo(_, _)
SeqsUpTo(S, n) ==
    IF n = 0 THEN {<<>>}
    ELSE LET shorter == SeqsUpTo(S, n - 1)
         IN shorter \cup {Append(s, x) : s \in shorter, x \in S}

\* Remove the element at index i.
RemoveAt(s, i) == SubSeq(s, 1, i - 1) \o SubSeq(s, i + 1, Len(s))

-----------------------------------------------------------------------------
(* Field and Node (node.rs 9-59) and prepare (node.rs 77-157).             *)

Attributes ==
    {"variadic", "internal", "positional", "required", "fold", "resolve", "parse"}

\* The Fold implementations a field's type may carry.
FoldTypes == {"Cat", "Sub"}

\* Field::inherent
inherent(field) == field.required \/ field.variadic

\* Field::settable
settable(field) == ~inherent(field)

\* The Field that prepare builds from one struct field's attributes.
prepare_field(ident, attrs, ty) ==
    LET variadic == "variadic" \in attrs
    IN [ name       |-> ident,
         internal   |-> "internal" \in attrs,
         positional |-> ("positional" \in attrs) \/ variadic,
         required   |-> ("required" \in attrs) \/ variadic,
         variadic   |-> variadic,
         fold       |-> "fold" \in attrs,
         resolve    |-> "resolve" \in attrs,
         parse      |-> "parse" \in attrs,
         ty         |-> ty ]

\* The two bail! checks of prepare: the field is accepted iff neither fires.
prepare_accepts(field) ==
    /\ ~(field.required /\ (field.fold \/ field.resolve))
    /\ ~(field.required /\ ~field.positional)

\* The node structs of the model and the name prepare derives from each:
\* ident.trim_end_matches("Node").to_lowercase().
NodeIdents == {"TitleNode", "Heading"}
node_name(ident) ==
    CASE ident = "TitleNode" -> "title"
      [] ident = "Heading"   -> "heading"

\* prepare: the Node for a struct with the given per-field attributes and
\* capability list; ok is FALSE when prepare bails.
prepare(ident, capable, attrsSeq, tySeq) ==
    LET fields == [i \in 1..Len(attrsSeq) |->
                      prepare_field(FieldIdents[i], attrsSeq[i], tySeq[i])]
    IN [ ok      |-> \A i \in 1..Len(fields) : prepare_accepts(fields[i]),
         ident   |-> ident,
         name    |-> node_name(ident),
         capable |-> capable,
         fields  |-> fields ]

\* Node::inherent / Node::settable: the indices of the fields, in order.
node_inherent(n) == {i \in 1..Len(n.fields) : inherent(n.fields[i])}
node_settable(n) == {i \in 1..Len(n.fields) : settable(n.fields[i])}


-----------------------------------------------------------------------------
(* Args: the argument list of a call (eval::Args), with the four           *)
(* extraction routines the generated code calls.  Each returns             *)
(* [ok, some, value, rest, err]: rest is the list after the call.          *)

FirstPositional(a) ==
    IF \E i \in 1..Len(a) : IsPositional(a[i])
    THEN CHOOSE i \in 1..Len(a) :
            IsPositional(a[i]) /\ \A j \in 1..(i - 1) : ~IsPositional(a[j])
    ELSE 0

ValuesOf(a) == [i \in 1..Len(a) |-> a[i].value]

\* args.all(): every remaining positional argument, in order.
args_all(a) ==
    [ ok    |-> TRUE, some |-> TRUE,
      value |-> ValuesOf(SelectSeq(a, IsPositional)),
      rest  |-> SelectSeq(a, LAMBDA x : ~IsPositional(x)),
      err   |-> "" ]

\* args.find(): the next positional argument, if there is one.
args_find(a) ==
    LET i == FirstPositional(a)
    IN IF i = 0
       THEN [ok |-> TRUE, some |-> FALSE, value |-> 0, rest |-> a, err |-> ""]
       ELSE [ok |-> TRUE, some |-> TRUE, value |-> a[i].value,
             rest |-> RemoveAt(a, i), err |-> ""]

\* args.expect(what): the next positional argument, an error naming `what`
\* if there is none.
args_expect(a, what) ==
    LET f == args_find(a)
    IN IF f.some THEN f
       ELSE [ok |-> FALSE, some |-> FALSE, value |-> 0, rest |-> a,
             err |-> "missing argument: " \o what]

\* args.named(name): the value of the named argument `name` (the last one
\* when the name is repeated); every argument of that name is consumed.
args_named(a, name) ==
    LET hits == {i \in 1..Len(a) : a[i].name = name}
    IN IF hits = {}
       THEN [ok |-> TRUE, some |-> FALSE, value |-> 0, rest |-> a, err |-> ""]
       ELSE LET last == CHOOSE i \in hits : \A j \in hits : j <= i
            IN [ok |-> TRUE, some |-> TRUE, value |-> a[last].value,
                rest |-> SelectSeq(a, LAMBDA x : x.name # name), err |-> ""]

-----------------------------------------------------------------------------
(* Content: the type-erased element instance (model::Content).             *)

\* Span::detached(): the span of content that no source location produced.
Detached == "detached"

\* NodeId::of::<Self>(): the identity of the node's static metadata; one
\* static exists per node struct, so the struct's ident stands for it.
NodeId_of(n) == n.ident

\* Content::new::<Self>()
Content_new(n) == [id |-> NodeId_of(n), fields |-> <<>>, span |-> Detached]

\* content.with_field(name, value)
with_field(c, name, value) ==
    [c EXCEPT !.fields =
        [k \in (DOMAIN c.fields) \cup {name} |->
            IF k = name THEN value ELSE c.fields[k]]]

\* content.field(name): the local value, if the instance carries one.
field(c, name) ==
    IF name \in DOMAIN c.fields THEN Some(c.fields[name]) ELSE None

\* content.cast_required_field(name): the value; panics when absent.
cast_required_field(c, name) ==
    IF name \in DOMAIN c.fields
    THEN [panic |-> FALSE, value |-> c.fields[name]]
    ELSE [panic |-> TRUE, value |-> 0]

\* content.spanned(span)
spanned(c, span) == [c EXCEPT !.span = span]

-----------------------------------------------------------------------------
(* The generated inherent functions (node.rs 213-311).                     *)

\* create_with_field_method: with_<field>(value).
create_with_field_method(fld, c, value) == with_field(c, fld.name, value)

RECURSIVE with_inherent(_, _, _, _)
with_inherent(n, i, c, vals) ==
    IF i > Len(n.fields) THEN c
    ELSE IF inherent(n.fields[i])
         THEN with_inherent(n, i + 1,
                  create_with_field_method(n.fields[i], c, vals[i]), vals)
         ELSE with_inherent(n, i + 1, c, vals)

\* create_new_func: new(inherent...) = Content::new() with every inherent
\* field set through its builder, in declaration order.  vals[i] is the
\* argument for field i (read for inherent fields only).
create_new_func(n, vals) == with_inherent(n, 1, Content_new(n), vals)

\* A variant keyed by the node's name instead of its id.
set_field_by_name(n, fld, value) ==
    [node |-> n.name, name |-> fld.name, value |-> value]

\* create_set_field_method: set_<field>(value), a Property.
create_set_field_method(n, fld, value) ==
    [node |-> NodeId_of(n), name |-> fld.name, value |-> value]

-----------------------------------------------------------------------------
(* Construct and Set (node.rs 390-478).                                    *)

\* What a field's custom parser (#[parse(...)]) may come to: an error, or
\* the expression's value.  The expression of a settable field has type
\* Option<ty>, that of an inherent field has type ty.
ParseOutcomes(fld) ==
    {[ok |-> FALSE, some |-> FALSE, value |-> 0]}
    \cup {[ok |-> TRUE, some |-> TRUE, value |-> v] : v \in Values}
    \cup (IF settable(fld)
          THEN {[ok |-> TRUE, some |-> FALSE, value |-> 0]} ELSE {})

\* A variant that tests `positional` before `required`.
field_parser_positional_first(fld, a, pout) ==
    IF fld.parse
    THEN [ok |-> pout.ok, some |-> pout.some, value |-> pout.value,
          rest |-> a, err |-> IF pout.ok THEN "" ELSE "parse error"]
    ELSE IF fld.variadic THEN args_all(a)
    ELSE IF fld.positional THEN args_find(a)
    ELSE IF fld.required THEN args_expect(a, fld.name)
    ELSE args_named(a, fld.name)

\* create_field_parser: the value expression for a field, evaluated on the
\* argument list a; pout is what the custom parser, if any, comes to.
create_field_parser(fld, a, pout) ==
    IF fld.parse
    THEN [ok |-> pout.ok, some |-> pout.some, value |-> pout.value,
          rest |-> a, err |-> IF pout.ok THEN "" ELSE "parse error"]
    ELSE IF fld.variadic THEN args_all(a)
    ELSE IF fld.required THEN args_expect(a, fld.name)
    ELSE IF fld.positional THEN args_find(a)
    ELSE args_named(a, fld.name)

\* One handler of construct, run on the state st = [ok, node, args, err]
\* of the call so far; an earlier `?` has already returned when ~st.ok.
construct_handler(fld, st, pout) ==
    IF ~st.ok THEN st
    ELSE LET p == create_field_parser(fld, st.args, pout)
         IN IF ~p.ok
            THEN [st EXCEPT !.ok = FALSE, !.err = p.err, !.args = p.rest]
            ELSE IF settable(fld)
            THEN [st EXCEPT !.args = p.rest,
                     !.node = IF p.some
                              THEN create_with_field_method(fld, st.node, p.value)
                              ELSE st.node]
            ELSE [st EXCEPT !.args = p.rest,
                     !.node = create_with_field_method(fld, st.node, p.value)]

\* The fields construct has a handler for.
construct_handles(fld) == ~fld.internal \/ fld.parse

RECURSIVE construct_from(_, _, _, _)
construct_from(n, i, st, pouts) ==
    IF i > Len(n.fields) THEN st
    ELSE IF construct_handles(n.fields[i])
         THEN construct_from(n, i + 1,
                  construct_handler(n.fields[i], st, pouts[i]), pouts)
         ELSE construct_from(n, i + 1, st, pouts)

\* A variant that ends with args.finish(): an argument left over is an
\* error.
construct_finishing(n, a, pouts) ==
    LET st == construct_from(n, 1,
                 [ok |-> TRUE, node |-> Content_new(n), args |-> a, err |-> ""],
                 pouts)
    IN IF st.ok /\ st.args # <<>>
       THEN [st EXCEPT !.ok = FALSE, !.err = "unexpected argument"]
       ELSE st

\* create_construct_impl: construct(vm, args).
create_construct_impl(n, a, pouts) ==
    construct_from(n, 1,
        [ok |-> TRUE, node |-> Content_new(n), args |-> a, err |-> ""], pouts)

\* One handler of set, on the state st = [ok, styles, args, err].
set_handler(n, fld, st, pout) ==
    IF ~st.ok THEN st
    ELSE LET p == create_field_parser(fld, st.args, pout)
         IN IF ~p.ok
            THEN [st EXCEPT !.ok = FALSE, !.err = p.err, !.args = p.rest]
            ELSE [st EXCEPT !.args = p.rest,
                     !.styles = IF p.some
                                THEN @ \cup {create_set_field_method(n, fld, p.value)}
                                ELSE @]

\* The fields set has a handler for.
set_handles(fld) == settable(fld) /\ (~fld.internal \/ fld.parse)

RECURSIVE set_from(_, _, _, _)
set_from(n, i, st, pouts) ==
    IF i > Len(n.fields) THEN st
    ELSE IF set_handles(n.fields[i])
         THEN set_from(n, i + 1, set_handler(n, n.fields[i], st, pouts[i]), pouts)
         ELSE set_from(n, i + 1, st, pouts)

\* create_set_impl: set(args).
create_set_impl(n, a, pouts) ==
    set_from(n, 1, [ok |-> TRUE, styles |-> {}, args |-> a, err |-> ""], pouts)

\* create: the Construct impl is generated unless the node lists Construct
\* among its capabilities.
generates_construct(n) ==
    \A i \in 1..Len(n.capable) : n.capable[i] # "Construct"

-----------------------------------------------------------------------------
(* Style maps and style chains (model::StyleMap, model::StyleChain).       *)
(* A style map is a set of Properties [node, name, value].  A chain is a   *)
(* linked list of maps: link k of `links` holds a map and the index of its *)
(* tail (0: the empty chain); a chain view is the index of its head link.  *)

\* A variant that also writes the new scope's entries into the parent link.
chain_extend_in_place(ls, parent, map) ==
    Append(IF parent = 0 THEN ls
           ELSE [ls EXCEPT ![parent].map = @ \cup map],
           [map |-> map, tail |-> parent])

\* chain.extend(map): a new innermost link in front of the view `parent`.
chain_extend(ls, parent, map) == Append(ls, [map |-> map, tail |-> parent])

\* The maps of the view v, innermost first.
RECURSIVE chain_maps(_, _)
chain_maps(ls, v) ==
    IF v = 0 THEN <<>> ELSE <<ls[v].map>> \o chain_maps(ls, ls[v].tail)

\* The entries of one map for (node id, field name).
map_entries(m, id, name) == {p \in m : p.node = id /\ p.name = name}

\* chain.properties(id, name, inherent): the values found for the field,
\* the instance's local value first, then the chain's entries from the
\* innermost map to the outermost.
RECURSIVE chain_values(_, _, _)
chain_values(maps, id, name) ==
    IF maps = <<>> THEN <<>>
    ELSE LET e == map_entries(Head(maps), id, name)
         IN (IF e = {} THEN <<>> ELSE <<(CHOOSE p \in e : TRUE).value>>)
            \o chain_values(Tail(maps), id, name)

properties(maps, id, name, inh) == inh \o chain_values(maps, id, name)

\* Fold::fold of the field's type: Cat appends the decimal digits of the
\* outer value to the inner one (associative, not commutative); Sub
\* subtracts (not associative).
RECURSIVE Shift(_, _)
Shift(a, b) == IF b = 0 THEN a ELSE Shift(a * 10, b \div 10)

fold(ty, a, b) ==
    CASE ty = "Cat" -> Shift(a, b) + b
      [] ty = "Sub" -> a - b

\* Resolve::resolve: finalizes a stored value; a finalized value is left
\* as it is.
resolve(v) == IF v >= 1000000 THEN v ELSE v + 1000000

\* The field's default expression.
default_of(fld) == 9

\* styles.get: the first value found, else the default.
get(maps, id, name, inh, default) ==
    LET vs == properties(maps, id, name, inh)
    IN IF vs = <<>> THEN default ELSE Head(vs)

\* styles.get_fold: every value found, combined pairwise from the first
\* on; the default when nothing is found.
RECURSIVE fold_from(_, _, _)
fold_from(ty, acc, rest) ==
    IF rest = <<>> THEN acc
    ELSE fold_from(ty, fold(ty, acc, Head(rest)), Tail(rest))

get_fold(ty, maps, id, name, inh, default) ==
    LET vs == properties(maps, id, name, inh)
    IN IF vs = <<>> THEN default ELSE fold_from(ty, Head(vs), Tail(vs))

\* styles.get_resolve: the plain lookup, finalized.
get_resolve(maps, id, name, inh, default) ==
    resolve(get(maps, id, name, inh, default))

\* styles.get_resolve_fold: the folded value, finalized.
get_resolve_fold(ty, maps, id, name, inh, default) ==
    resolve(get_fold(ty, maps, id, name, inh, default))

-----------------------------------------------------------------------------
(* The generated accessors (node.rs 230-283).                              *)

\* A variant with the getters of the fold and the plain mode exchanged.
style_chain_access_swapped(n, fld, inh, maps) ==
    CASE ~fld.fold /\ ~fld.resolve ->
            get_fold(fld.ty, maps, NodeId_of(n), fld.name, inh, default_of(fld))
      [] ~fld.fold /\ fld.resolve ->
            get_resolve(maps, NodeId_of(n), fld.name, inh, default_of(fld))
      [] fld.fold /\ ~fld.resolve ->
            get(maps, NodeId_of(n), fld.name, inh, default_of(fld))
      [] fld.fold /\ fld.resolve ->
            get_resolve_fold(fld.ty, maps, NodeId_of(n), fld.name, inh,
                             default_of(fld))

\* create_style_chain_access: the getter is chosen by (fold, resolve).
create_style_chain_access(n, fld, inh, maps) ==
    CASE ~fld.fold /\ ~fld.resolve ->
            get(maps, NodeId_of(n), fld.name, inh, default_of(fld))
      [] ~fld.fold /\ fld.resolve ->
            get_resolve(maps, NodeId_of(n), fld.name, inh, default_of(fld))
      [] fld.fold /\ ~fld.resolve ->
            get_fold(fld.ty, maps, NodeId_of(n), fld.name, inh, default_of(fld))
      [] fld.fold /\ fld.resolve ->
            get_resolve_fold(fld.ty, maps, NodeId_of(n), fld.name, inh,
                             default_of(fld))

\* A variant that passes no local value to the style chain.
field_method_without_local(n, fld, c, maps) ==
    IF inherent(fld)
    THEN cast_required_field(c, fld.name)
    ELSE [panic |-> FALSE,
          value |-> create_style_chain_access(n, fld, None, maps)]

\* create_field_method: <field>(&self) for an inherent field,
\* <field>(&self, styles) for a settable one.
create_field_method(n, fld, c, maps) ==
    IF inherent(fld)
    THEN cast_required_field(c, fld.name)
    ELSE [panic |-> FALSE,
          value |-> create_style_chain_access(n, fld, field(c, fld.name), maps)]

\* A variant that always takes the plain lookup, whatever the field's mode.
field_in_method_plain(n, fld, maps) ==
    get(maps, NodeId_of(n), fld.name, None, default_of(fld))

\* create_field_in_method: <field>_in(styles).
create_field_in_method(n, fld, maps) ==
    create_style_chain_access(n, fld, None, maps)

-----------------------------------------------------------------------------
(* The capability vtable (node.rs 344-365).                                *)

\* A capability is a trait: an identifier declared at some path.  The
\* node's capability list holds bare identifiers; `dyn #capability` in the
\* generated code names the trait that identifier resolves to where the
\* node is defined, the model module.
Trait(path, ident) == [path |-> path, ident |-> ident]
CapIdents == {"Show", "Layout", "Construct"}
Traits == {Trait("model", i) : i \in CapIdents} \cup {Trait("other", "Show")}
InScope(ident) == Trait("model", ident)

\* TypeId::of::<dyn Trait>(): one id per trait, whatever its identifier.
TypeId_of(trait) == trait

\* fat::vtable(&null as &dyn Trait): the call table of the node's impl.
vtable(n, trait) == [node |-> NodeId_of(n), trait |-> trait]

\* A variant that compares the capability's identifier only.
vtable_by_ident(n, id) ==
    LET relevant == SelectSeq(n.capable, LAMBDA c : c # "Construct")
        hits == {k \in 1..Len(relevant) : id.ident = relevant[k]}
    IN IF hits = {} THEN None
       ELSE Some(vtable(n, InScope(relevant[CHOOSE k \in hits :
                                               \A j \in hits : k <= j])))

\* create_vtable_func: the closure |id| stored in NodeMeta.vtable.
create_vtable_func(n, id) ==
    LET relevant == SelectSeq(n.capable, LAMBDA c : c # "Construct")
        hits == {k \in 1..Len(relevant) : id = TypeId_of(InScope(relevant[k]))}
    IN IF hits = {} THEN None
       ELSE Some(vtable(n, InScope(relevant[CHOOSE k \in hits :
                                               \A j \in hits : k <= j])))

-----------------------------------------------------------------------------
(* The Construct / Set protocol as a state machine: an element type is     *)
(* prepared, then calls are made on it.                                    *)

\* No tree layouter is at work.
NoTree ==
    /\ this = <<>>
    /\ stack = <<>>
    /\ cur = <<>>
    /\ result = <<>>

NoContent == [id |-> "", fields |-> <<>>, span |-> Detached]
NoRes == [op |-> "none", ok |-> TRUE, err |-> "", input |-> <<>>, styles |-> {}]
NoOut == [op |-> "none", field |-> 0, view |-> 0, panic |-> FALSE, value |-> 0]

\* The element types prepare accepts: one to MaxFields fields with every
\* set of the attributes construct and set read on each, and one field with
\* every set of attributes.
ProtocolAttributes == Attributes \ {"fold", "resolve"}
AttrSeqs ==
    (SeqsUpTo(SUBSET ProtocolAttributes, MaxFields) \ {<<>>})
    \cup {<<attrs>> : attrs \in SUBSET Attributes}

PreparedNodes(idents, capables, tys) ==
    {n \in {prepare(id, cap, attrs, [i \in 1..Len(attrs) |-> ty]) :
               id \in idents, cap \in capables, attrs \in AttrSeqs, ty \in tys} :
        n.ok}

\* The argument lists of a call: positional values, and named arguments
\* for each field name and for a name no field has.
ArgNames == {FieldIdents[i] : i \in 1..MaxFields} \cup {UnknownName}
ArgPool == {Arg("", v) : v \in Values} \cup {Arg(nm, 2) : nm \in ArgNames}
ArgLists == SeqsUpTo(ArgPool, MaxArgs)

\* What the custom parsers of the node's fields come to in one call.
ParseChoices(n) ==
    {pouts \in [1..Len(n.fields) ->
                  UNION {ParseOutcomes(n.fields[i]) : i \in 1..Len(n.fields)}] :
        \A i \in 1..Len(n.fields) :
            IF n.fields[i].parse
            THEN pouts[i] \in ParseOutcomes(n.fields[i])
            ELSE pouts[i] = [ok |-> FALSE, some |-> FALSE, value |-> 0]}

\* Arguments for new(): one value per inherent field (a one-element vector
\* for a variadic field).
NewArgs(n) ==
    {[i \in 1..Len(n.fields) |->
         IF n.fields[i].variadic THEN <<vals[i]>> ELSE vals[i]] :
       vals \in {w \in [1..Len(n.fields) -> Values] :
                   \A i \in 1..Len(n.fields) :
                       settable(n.fields[i]) => w[i] = 1}}

InitProtocol ==
    /\ node \in PreparedNodes({"TitleNode"}, {<<"Show">>}, {"Cat"})
    /\ content = NoContent
    /\ args = <<>>
    /\ res = NoRes
    /\ links = <<>>
    /\ out = NoOut
    /\ NoTree

\* Construct::construct(vm, args) on a fresh argument list.  One behaviour
\* follows one call: construct and set are functions of their arguments.
Construct ==
    /\ res.op = "none"
    /\ generates_construct(node)
    /\ \E a \in ArgLists, pouts \in ParseChoices(node) :
         LET r == create_construct_impl(node, a, pouts)
         IN /\ res' = [op |-> "construct", ok |-> r.ok, err |-> r.err,
                       input |-> a, styles |-> {}]
            /\ content' = IF r.ok THEN r.node ELSE NoContent
            /\ args' = r.args
    /\ links' = <<>>
    /\ out' = NoOut
    /\ UNCHANGED node
    /\ UNCHANGED treeVars

\* Set::set(args) on a fresh argument list; the surrounding scope is then
\* entered by extending the empty chain with the returned map.
Set ==
    /\ res.op = "none"
    /\ \E a \in ArgLists, pouts \in ParseChoices(node) :
         LET r == create_set_impl(node, a, pouts)
         IN /\ res' = [op |-> "set", ok |-> r.ok, err |-> r.err,
                       input |-> a, styles |-> IF r.ok THEN r.styles ELSE {}]
            /\ links' = IF r.ok THEN chain_extend(<<>>, 0, r.styles) ELSE <<>>
            /\ args' = r.args
    /\ content' = NoContent
    /\ out' = NoOut
    /\ UNCHANGED node
    /\ UNCHANGED treeVars

\* Self::new(inherent...) inside the scope of the last set rule.
New ==
    /\ res.op = "set" /\ res.ok
    /\ content = NoContent
    /\ \E vals \in NewArgs(node) : content' = create_new_func(node, vals)
    /\ out' = NoOut
    /\ UNCHANGED <<node, args, res, links>>
    /\ UNCHANGED treeVars

\* A field accessor called on the instance at hand, with the innermost
\* chain as the style chain.
Access ==
    /\ content # NoContent
    /\ \E i \in 1..Len(node.fields) :
         LET r == create_field_method(node, node.fields[i], content,
                                      chain_maps(links, Len(links)))
         IN out' = [op |-> "field", field |-> i, view |-> Len(links),
                    panic |-> r.panic, value |-> r.value]
    /\ UNCHANGED <<node, content, args, res, links>>
    /\ UNCHANGED treeVars

NextProtocol == Construct \/ Set \/ New \/ Access

Spec == InitProtocol /\ [][NextProtocol]_vars

-----------------------------------------------------------------------------
(* What the argument protocol is to extract, stated by position: the k-th  *)
(* positional argument goes to the k-th field that takes a positional      *)
(* argument, a variadic field takes every positional argument from its     *)
(* place on, a named field takes the argument of its name.  Scoped(_)      *)
(* says which fields take part in the call.                                *)

PositionalValues(a) == ValuesOf(SelectSeq(a, IsPositional))

TakesPositional(fld) == ~fld.parse /\ fld.positional

Rank(n, i, Scoped(_)) ==
    Cardinality({j \in 1..(i - 1) : Scoped(j) /\ TakesPositional(n.fields[j])})

VariadicBefore(n, i, Scoped(_)) ==
    \E j \in 1..(i - 1) :
        Scoped(j) /\ ~n.fields[j].parse /\ n.fields[j].variadic

NamedValue(a, name) ==
    LET hits == {k \in 1..Len(a) : a[k].name = name}
    IN IF hits = {} THEN None
       ELSE Some(a[CHOOSE k \in hits : \A m \in hits : m <= k].value)

\* The value field i (which has no custom parser) is to receive.
Expected(n, a, i, Scoped(_)) ==
    LET fld == n.fields[i]
        P   == PositionalValues(a)
        r   == Rank(n, i, Scoped)
        cut == VariadicBefore(n, i, Scoped)
    IN IF fld.variadic
       THEN Some(IF cut THEN <<>> ELSE SubSeq(P, r + 1, Len(P)))
       ELSE IF fld.positional
       THEN (IF ~cut /\ r + 1 <= Len(P) THEN Some(P[r + 1]) ELSE None)
       ELSE NamedValue(a, fld.name)

\* The required fields left without an argument.
Missing(n, a, Scoped(_)) ==
    {i \in 1..Len(n.fields) :
        /\ Scoped(i) /\ ~n.fields[i].parse
        /\ n.fields[i].required /\ ~n.fields[i].variadic
        /\ Expected(n, a, i, Scoped) = None}

NoCustomParser(n) == \A i \in 1..Len(n.fields) : ~n.fields[i].parse

\* construct extracts the fields Scoped(_) names, each by its kind, and
\* leaves every other field absent.
ExtractsByKind(n, a, Scoped(_)) ==
    LET missing == Missing(n, a, Scoped)
    IN /\ NoCustomParser(n) => (res.ok <=> missing = {})
       /\ (NoCustomParser(n) /\ ~res.ok) =>
             LET first == CHOOSE i \in missing : \A j \in missing : i <= j
             IN res.err = "missing argument: " \o n.fields[first].name
       /\ res.ok =>
             \A i \in 1..Len(n.fields) :
                 /\ (Scoped(i) /\ ~n.fields[i].parse) =>
                       field(content, n.fields[i].name) = Expected(n, a, i, Scoped)
                 /\ ~Scoped(i) => field(content, n.fields[i].name) = None

EveryField(i) == TRUE
ConstructHandled(i) == construct_handles(node.fields[i])
SetHandled(i) == set_handles(node.fields[i])
Settable(i) == settable(node.fields[i])

\* The element of the argument-protocol examples: a required positional
\* field and an optional named field.
IsExampleNode(n) ==
    /\ Len(n.fields) = 2
    /\ n.fields[1] = prepare_field(FieldIdents[1], {"required", "positional"}, "Cat")
    /\ n.fields[2] = prepare_field(FieldIdents[2], {}, "Cat")

HasUnknownNamed(a) == \E k \in 1..Len(a) : a[k].name = UnknownName

-----------------------------------------------------------------------------
(* C3.  Construction invariant, as claimed: whenever construct returns Ok, *)
(* reading any inherent (required or variadic) field of the returned       *)
(* instance through its accessor succeeds (cast_required_field does not    *)
(* panic), for every element type prepare accepts.                         *)
C3_ConstructionInvariant ==
    (res.op = "construct" /\ res.ok /\ out.op = "field"
        /\ inherent(node.fields[out.field]))
    => ~out.panic

(* C4.  As claimed: for the element with one required positional and one   *)
(* optional named field, constructing from arguments that contain a named  *)
(* argument matching no field returns an unexpected-argument error.        *)
C4_UnexpectedArgumentError ==
    (res.op = "construct" /\ IsExampleNode(node) /\ HasUnknownNamed(res.input))
    => (~res.ok /\ res.err = "unexpected argument")

(* C4, amended.  construct itself does not reject unconsumed arguments:    *)
(* for that element and such arguments it fails exactly when no positional *)
(* argument is present, with a missing-argument error naming the required  *)
(* field; otherwise it returns the instance and leaves every unmatched     *)
(* named argument, unconsumed, in the argument list.                       *)
C4_LeftoverArguments ==
    (res.op = "construct" /\ IsExampleNode(node) /\ HasUnknownNamed(res.input))
    => IF PositionalValues(res.input) = <<>>
       THEN ~res.ok /\ res.err = "missing argument: " \o node.fields[1].name
       ELSE /\ res.ok /\ content # NoContent
            /\ \A k \in 1..Len(res.input) :
                  res.input[k].name = UnknownName
                  => \E m \in 1..Len(args) : args[m] = res.input[k]

C4_Witness ==
    /\ res.op = "construct" /\ IsExampleNode(node) /\ res.ok
    /\ HasUnknownNamed(res.input) /\ HasUnknownNamed(args)

(* C5.  As claimed: construct extracts each field that has no custom       *)
(* parser by its kind, in declaration order (variadic: all remaining       *)
(* positional arguments; required: the next positional argument or a       *)
(* missing-argument error naming the field; positional: the next           *)
(* positional argument if any; otherwise the named argument of the field's *)
(* name); a settable field that comes out unset is absent.                 *)
C5_ExtractsEveryField ==
    res.op = "construct" => ExtractsByKind(node, res.input, EveryField)

(* C5, amended.  construct skips an internal field that has no custom      *)
(* parser (it stays absent and consumes no argument); every other field    *)
(* without a custom parser is extracted by its kind, in declaration order, *)
(* as claimed, and a settable field that comes out unset is absent.        *)
C5_ExtractsHandledFields ==
    res.op = "construct" => ExtractsByKind(node, res.input, ConstructHandled)

C5_Witness ==
    /\ res.op = "construct" /\ res.ok /\ IsExampleNode(node)
    /\ res.input = <<Arg("", 1)>>
    /\ field(content, node.fields[1].name) = Some(1)
    /\ field(content, node.fields[2].name) = None

\* The style map set returned holds, for each settable field Scoped(_)
\* names, one Property (node id, field name, value) when the arguments
\* supplied a value and none otherwise, and nothing else.
OnePropertyPerSupplied(n, a, Scoped(_)) ==
    /\ \A p \in res.styles :
          /\ p.node = NodeId_of(n)
          /\ \E i \in 1..Len(n.fields) :
                Settable(i) /\ Scoped(i) /\ p.name = n.fields[i].name
    /\ \A i \in 1..Len(n.fields) :
          LET e == map_entries(res.styles, NodeId_of(n), n.fields[i].name)
          IN /\ Cardinality(e) <= 1
             /\ (Settable(i) /\ Scoped(i) /\ ~n.fields[i].parse) =>
                   LET x == Expected(n, a, i, Scoped)
                   IN e = (IF IsSome(x)
                           THEN {[node |-> NodeId_of(n),
                                  name |-> n.fields[i].name, value |-> Unwrap(x)]}
                           ELSE {})

\* Resolving a settable field on a new instance (no local value) under the
\* chain extended with the returned map gives the value the map holds for
\* the field (in its finalized form when the field is a resolve field).
ResolvesToSupplied ==
    (out.op = "field" /\ Settable(out.field)
        /\ field(content, node.fields[out.field].name) = None)
    => LET fld == node.fields[out.field]
           e   == map_entries(res.styles, NodeId_of(node), fld.name)
       IN e # {} =>
             out.value = (IF fld.resolve
                          THEN resolve((CHOOSE p \in e : TRUE).value)
                          ELSE (CHOOSE p \in e : TRUE).value)

(* C6.  As claimed: set returns a map holding exactly one Property per     *)
(* settable field for which the arguments supplied a value (an empty map   *)
(* when none was supplied), and resolving a supplied field on a fresh      *)
(* instance under the chain extended with that map returns the supplied    *)
(* value.                                                                  *)
C6_PropertyPerSettableField ==
    (res.op = "set" /\ res.ok)
    => /\ OnePropertyPerSupplied(node, res.input, Settable)
       /\ ResolvesToSupplied

(* C6, amended.  set skips an internal settable field that has no custom   *)
(* parser (no Property is made for it and it consumes no argument); for    *)
(* every other settable field the map holds exactly one Property when the  *)
(* arguments supplied a value and none otherwise, and the round trip       *)
(* through the extended chain returns the supplied value.                  *)
C6_PropertyPerHandledField ==
    (res.op = "set" /\ res.ok)
    => /\ OnePropertyPerSupplied(node, res.input, SetHandled)
       /\ ResolvesToSupplied

C6_Witness ==
    /\ res.op = "set" /\ res.ok /\ IsExampleNode(node)
    /\ res.input = <<Arg(node.fields[2].name, 2)>>
    /\ Cardinality(res.styles) = 1
    /\ out.op = "field" /\ out.field = 2 /\ out.value = 2
    /\ field(content, node.fields[2].name) = None

-----------------------------------------------------------------------------
(* Style-chain resolution as a state machine: an element type with one     *)
(* settable field, an instance of it, and a growing tree of chain links.   *)

\* The element types: one settable field in each resolution mode, with
\* each Fold implementation where the field folds.
StyleNodes ==
    {n \in {prepare("TitleNode", <<"Show">>, <<attrs>>, <<ty>>) :
               attrs \in SUBSET {"fold", "resolve"}, ty \in FoldTypes} :
        n.ok /\ (n.fields[1].fold \/ n.fields[1].ty = "Cat")}

\* The style maps scopes are entered with: entries for the field, for the
\* same field name of another element type, and for another field.
Property(id, name, value) == [node |-> id, name |-> name, value |-> value]
StyleMaps ==
    { {},
      {Property("TitleNode", FieldIdents[1], 1)},
      {Property("TitleNode", FieldIdents[1], 2)},
      {Property("TitleNode", FieldIdents[2], 1)},
      {Property("TitleNode", FieldIdents[1], 2),
       Property("Heading", FieldIdents[1], 1)} }

InitStyles ==
    /\ node \in StyleNodes
    /\ content = create_new_func(node, <<1>>)
    /\ args = <<>>
    /\ res = NoRes
    /\ links = <<>>
    /\ out = NoOut
    /\ NoTree

\* The views a scope is entered from: the innermost one (a nested scope),
\* or the one the innermost scope was itself entered from (that scope has
\* been left, and a sibling of it is entered).
Parents(ls) == IF ls = <<>> THEN {0} ELSE {Len(ls), ls[Len(ls)].tail}

\* chain.extend(map): a scope is entered.
Extend ==
    /\ Len(links) < MaxLinks
    /\ \E parent \in Parents(links), m \in StyleMaps :
          links' = chain_extend(links, parent, m)
    /\ out' = NoOut
    /\ UNCHANGED <<node, content, args, res>>
    /\ UNCHANGED treeVars

\* with_<field>(value) on the instance.
WithField ==
    /\ \E v \in Values :
          content' = create_with_field_method(node.fields[1], content, v)
    /\ out' = NoOut
    /\ UNCHANGED <<node, args, res, links>>
    /\ UNCHANGED treeVars

\* <field>(styles) on the instance, with any chain view as the styles.
AccessView ==
    /\ \E v \in 0..Len(links) :
         LET r == create_field_method(node, node.fields[1], content,
                                      chain_maps(links, v))
         IN out' = [op |-> "field", field |-> 1, view |-> v,
                    panic |-> r.panic, value |-> r.value]
    /\ UNCHANGED <<node, content, args, res, links>>
    /\ UNCHANGED treeVars

NextStyles == Extend \/ WithField \/ AccessView

SpecStyles == InitStyles /\ [][NextStyles]_vars

-----------------------------------------------------------------------------
(* What resolution is to find, stated on the chain as a whole.             *)

\* The places of the maps that hold an entry for the field.
Holders(maps, id, name) ==
    {k \in 1..Len(maps) : map_entries(maps[k], id, name) # {}}

EntryValue(m, id, name) == (CHOOSE p \in map_entries(m, id, name) : TRUE).value

\* The values in chain order: the n-th is the entry of the n-th holder.
ChainFound(maps, id, name) ==
    LET H == Holders(maps, id, name)
    IN [n \in 1..Cardinality(H) |->
          EntryValue(maps[CHOOSE k \in H :
                             Cardinality({j \in H : j <= k}) = n], id, name)]

\* v1 (+) v2 (+) ... (+) vn, grouped from the left.
RECURSIVE LeftCombined(_, _)
LeftCombined(ty, vs) ==
    IF Len(vs) = 1 THEN vs[1]
    ELSE fold(ty, LeftCombined(ty, SubSeq(vs, 1, Len(vs) - 1)), vs[Len(vs)])

IsAssociative(ty) ==
    \A a, b, c \in Values \cup {default_of(node.fields[1])} :
        fold(ty, fold(ty, a, b), c) = fold(ty, a, fold(ty, b, c))

OutField == node.fields[out.field]
OutMaps == chain_maps(links, out.view)
OutLocal == field(content, OutField.name)

(* C1.  Plain resolution is nearest-scope-wins: for a settable field       *)
(* without fold or resolve the accessor returns the instance's local value *)
(* if present, else the entry of the innermost chain map holding one for   *)
(* (type id, field name), else the default; nothing is merged.             *)
C1_NearestScopeWins ==
    (out.op = "field" /\ ~OutField.fold /\ ~OutField.resolve)
    => LET H == Holders(OutMaps, NodeId_of(node), OutField.name)
       IN out.value =
            (IF IsSome(OutLocal) THEN Unwrap(OutLocal)
             ELSE IF H # {}
             THEN EntryValue(OutMaps[CHOOSE k \in H : \A j \in H : k <= j],
                             NodeId_of(node), OutField.name)
             ELSE default_of(OutField))

\* chain [inner = {x: 1}, outer = {x: 2}] without a local value gives 1.
C1_Witness ==
    /\ out.op = "field" /\ ~OutField.fold /\ ~OutField.resolve
    /\ OutLocal = None /\ Len(OutMaps) = 2
    /\ Holders(OutMaps, NodeId_of(node), OutField.name) = {1, 2}
    /\ EntryValue(OutMaps[1], NodeId_of(node), OutField.name) = 1
    /\ EntryValue(OutMaps[2], NodeId_of(node), OutField.name) = 2
    /\ out.value = 1

(* C2.  Fold resolution combines every value found: the result is          *)
(* local (+) chain[0] (+) chain[1] (+) ..., pairwise from the left, the    *)
(* local value (if present) first and the chain entries from innermost to  *)
(* outermost over the whole chain; the default is returned, as it is, only *)
(* when neither a local value nor any chain entry exists.                  *)
C2_FoldCombinesAll ==
    (out.op = "field" /\ OutField.fold /\ ~OutField.resolve)
    => LET vs == OutLocal \o ChainFound(OutMaps, NodeId_of(node), OutField.name)
       IN out.value = (IF vs = <<>> THEN default_of(OutField)
                       ELSE LeftCombined(OutField.ty, vs))

\* A local value and two chain entries, under the non-associative Sub.
C2_Witness ==
    /\ out.op = "field" /\ OutField.fold /\ ~OutField.resolve
    /\ OutField.ty = "Sub" /\ IsSome(OutLocal)
    /\ Cardinality(Holders(OutMaps, NodeId_of(node), OutField.name)) >= 2

\* The chain [A, B, C] resolved at once, and [A, B] resolved and then
\* combined with C's entry.
SplitAtThird ==
    LET id == NodeId_of(node)
        C  == OutMaps[3]
        ab == create_field_method(node, OutField, content,
                                  SubSeq(OutMaps, 1, 2)).value
    IN out.value = (IF map_entries(C, id, OutField.name) # {}
                    THEN fold(OutField.ty, ab, EntryValue(C, id, OutField.name))
                    ELSE ab)

C9_ChainsImmutable ==
    [][\A v \in 1..Len(links) :
          /\ v <= Len(links')
          /\ links'[v] = links[v]
          /\ chain_maps(links', v) = chain_maps(links, v)
          /\ create_field_in_method(node, node.fields[1], chain_maps(links', v))
               = create_field_in_method(node, node.fields[1], chain_maps(links, v))
      ]_vars

\* A parent view with two nested scopes entered from it.
C9_Witness ==
    /\ Len(links) = 3
    /\ links[1].map # {} /\ links[2].tail = 1 /\ links[3].tail = 1
    /\ links[2].map # {} /\ links[3].map # links[2].map

-----------------------------------------------------------------------------
(* The chain-only accessor next to the instance accessor.                  *)

\* <field>_in(styles): the settable field against any chain view; it takes
\* no instance.
AccessIn ==
    /\ settable(node.fields[1])
    /\ \E v \in 0..Len(links) :
         out' = [op |-> "field_in", field |-> 1, view |-> v, panic |-> FALSE,
                 value |-> create_field_in_method(node, node.fields[1],
                                                  chain_maps(links, v))]
    /\ UNCHANGED <<node, content, args, res, links>>
    /\ UNCHANGED treeVars

NextStylesIn == Extend \/ WithField \/ AccessView \/ AccessIn

SpecStylesIn == InitStyles /\ [][NextStylesIn]_vars

\* The instances of the element type that hold no local value for field
\* fld: the fresh one, and the current one when it holds none.
WithoutLocal(fld) ==
    {c \in {Content_new(node), content} : field(c, fld.name) = None}

(* C11.  The chain-only accessor <field>_in of a settable field resolves   *)
(* as the instance accessor does with the local-value step skipped: for    *)
(* every chain view and every mode (plain, fold, resolve, fold then        *)
(* resolve) its result is the instance accessor's result on an instance    *)
(* without a local value for the field, whatever local value the current   *)
(* instance holds.                                                         *)
C11_InAccessorSkipsLocal ==
    out.op = "field_in"
    => /\ settable(OutField)
       /\ WithoutLocal(OutField) # {}
       /\ \A c \in WithoutLocal(OutField) :
             LET r == create_field_method(node, OutField, c, OutMaps)
             IN ~r.panic /\ out.value = r.value

\* A fold-then-resolve field whose instance holds a local value, against a
\* chain with two entries: the instance accessor gives another result.
C11_Witness ==
    /\ out.op = "field_in" /\ OutField.fold /\ OutField.resolve
    /\ IsSome(OutLocal)
    /\ Cardinality(Holders(OutMaps, NodeId_of(node), OutField.name)) >= 2
    /\ create_field_method(node, OutField, content, OutMaps).value # out.value
    /\ out.value = resolve(LeftCombined(OutField.ty,
                         ChainFound(OutMaps, NodeId_of(node), OutField.name)))

-----------------------------------------------------------------------------
(* Capability lookup as a state machine.                                   *)

InitVtable ==
    /\ \E id \in NodeIdents, cap \in SeqsUpTo(CapIdents, MaxCaps) :
          node = prepare(id, cap, <<{"required", "positional"}>>, <<"Cat">>)
    /\ content = NoContent
    /\ args = <<>>
    /\ res = NoRes
    /\ links = <<>>
    /\ out = NoOut
    /\ NoTree

\* (NodeMeta.vtable)(id): the lookup a cast to a capability performs.
Lookup ==
    /\ \E id \in {TypeId_of(t) : t \in Traits} :
          out' = [op |-> "lookup", field |-> id, view |-> 0, panic |-> FALSE,
                  value |-> create_vtable_func(node, id)]
    /\ UNCHANGED <<node, content, args, res, links>>
    /\ UNCHANGED treeVars

NextVtable == Lookup

SpecVtable == InitVtable /\ [][NextVtable]_vars

\* The type ids of the capabilities the node lists.
Declared(n) == {TypeId_of(InScope(n.capable[k])) : k \in 1..Len(n.capable)}

(* C7.  Capability lookup, as claimed: a call table is returned exactly    *)
(* when the requested capability is one the type lists, and the table is   *)
(* the one of the requested capability (ids are compared by identity).     *)
C7_LookupIsExact ==
    out.op = "lookup" =>
        /\ IsSome(out.value) <=> out.field \in Declared(node)
        /\ IsSome(out.value) => Unwrap(out.value) = vtable(node, out.field)

(* C7, amended.  Construct is not a capability the vtable serves: a call   *)
(* table is returned exactly when the requested capability is one the type *)
(* lists other than Construct (for Construct the lookup returns None even  *)
(* when listed); a returned table is the one of the requested capability,  *)
(* ids being compared by identity.                                         *)
C7_LookupIsExactButConstruct ==
    out.op = "lookup" =>
        /\ IsSome(out.value) <=>
              (out.field \in Declared(node)
                 /\ out.field # TypeId_of(InScope("Construct")))
        /\ IsSome(out.value) => Unwrap(out.value) = vtable(node, out.field)

\* A declared capability found, and a same-named one of another path not.
C7_Witness ==
    /\ out.op = "lookup" /\ out.value = None
    /\ out.field = TypeId_of(Trait("other", "Show"))
    /\ TypeId_of(Trait("model", "Show")) \in Declared(node)
    /\ create_vtable_func(node, TypeId_of(Trait("model", "Show"))) # None

-----------------------------------------------------------------------------
(* The title element (title.rs): #[elem(Locatable, Show, ShowSet)] with    *)
(* one required field, body, and its Show implementation.                  *)

TitleElem ==
    [ ok      |-> TRUE,
      ident   |-> "TitleElem",
      name    |-> "title",
      capable |-> <<"Locatable", "Show", "ShowSet">>,
      fields  |-> <<prepare_field("body", {"required", "positional"}, "Cat")>> ]

\* TargetElem::target_in(styles): the export target set in the chain,
\* paged unless set.
target_in(maps) == get(maps, "TargetElem", "target", None, "paged")
is_html(target) == target = "html"

\* HtmlElem::new(tag).with_body(body).pack()
HtmlElem_new(tag, body) ==
    [id |-> "HtmlElem", fields |-> [tag |-> tag, body |-> body],
     span |-> Detached]

\* BlockElem::new().with_body(body).pack()
BlockElem_new(body) ==
    [id |-> "BlockElem", fields |-> [body |-> body], span |-> Detached]

\* BlockBody::Content(content)
BlockBody_Content(c) == [variant |-> "Content", content |-> c]

\* A variant that drops the span of the result.
show_unspanned(self, maps) ==
    LET html     == is_html(target_in(maps))
        realized == cast_required_field(self, "body").value
    IN [ok |-> TRUE,
        content |-> IF html
                    THEN HtmlElem_new("h1", Some(realized))
                    ELSE BlockElem_new(Some(BlockBody_Content(realized)))]

\* <Packed<TitleElem> as Show>::show(&self, engine, styles)
show(self, maps) ==
    LET html     == is_html(target_in(maps))
        span     == self.span
        realized == cast_required_field(self, "body").value
    IN [ok |-> TRUE,
        content |-> IF html
                    THEN spanned(HtmlElem_new("h1", Some(realized)), span)
                    ELSE spanned(BlockElem_new(Some(BlockBody_Content(realized))),
                                 span)]

Bodies == {"Hello", "World"}
Spans == {"span1", "span2", Detached}

\* The style maps of the scopes a title is shown in.
TargetMaps ==
    { {},
      {Property("TargetElem", "target", "html")},
      {Property("TargetElem", "target", "paged")},
      {Property("TextElem", "target", "html")} }

InitTitle ==
    /\ node = TitleElem
    /\ \E b \in Bodies, sp \in Spans :
          content = spanned(create_new_func(node, <<b>>), sp)
    /\ args = <<>>
    /\ res = NoRes
    /\ links = <<>>
    /\ out = NoOut
    /\ NoTree

\* A scope is entered.
ExtendTarget ==
    /\ Len(links) < MaxLinks
    /\ \E parent \in Parents(links), m \in TargetMaps :
          links' = chain_extend(links, parent, m)
    /\ out' = NoOut
    /\ UNCHANGED <<node, content, args, res>>
    /\ UNCHANGED treeVars

\* The title is shown under any chain view.
Show ==
    /\ \E v \in 0..Len(links) :
         LET r == show(content, chain_maps(links, v))
         IN out' = [op |-> "show", field |-> 1, view |-> v,
                    panic |-> ~r.ok, value |-> r.content]
    /\ UNCHANGED <<node, content, args, res, links>>
    /\ UNCHANGED treeVars

NextTitle == ExtendTarget \/ Show

SpecTitle == InitTitle /\ [][NextTitle]_vars

\* The export target of the view the title was shown under: that of the
\* innermost map holding one.
OutTarget ==
    LET H == Holders(OutMaps, "TargetElem", "target")
    IN IF H = {} THEN "paged"
       ELSE EntryValue(OutMaps[CHOOSE k \in H : \A j \in H : k <= j],
                       "TargetElem", "target")

(* C10.  Showing a title always succeeds and wraps the title's body        *)
(* unchanged: under the HTML target the result is an h1 HTML element whose *)
(* body is the title's body, otherwise a block element whose body is the   *)
(* title's body; either way the result carries the title's span.           *)
C10_ShowWrapsBody ==
    out.op = "show" =>
        /\ ~out.panic
        /\ out.value.span = content.span
        /\ IF OutTarget = "html"
           THEN /\ out.value.id = "HtmlElem"
                /\ out.value.fields.tag = "h1"
                /\ out.value.fields.body = Some(content.fields.body)
           ELSE /\ out.value.id = "BlockElem"
                /\ out.value.fields.body
                     = Some(BlockBody_Content(content.fields.body))

\* Shown as h1 under a chain whose innermost target is HTML and whose
\* outer target is paged.
C10_Witness ==
    /\ out.op = "show" /\ out.value.id = "HtmlElem"
    /\ content.fields.body = "Hello" /\ content.span = "span1"
    /\ Holders(OutMaps, "TargetElem", "target") = {1, 2}
    /\ EntryValue(OutMaps[2], "TargetElem", "target") = "paged"


-----------------------------------------------------------------------------
(* The tree layouter (src/layout/tree.rs).  The styles, the line layouter, *)
(* the functions of the syntax tree and the error! macro live outside the  *)
(* modelled file: they are modelled by what tree.rs relies on, every       *)
(* fallible call of them with both of its outcomes.                        *)

MaxDepth == 3       \* nested loops of layout / layout_func at a time
MaxNodes == 2       \* nodes of one syntax tree
MaxCommands == 2    \* commands one function call yields
MaxFinished == 2    \* spaces the line layouter finishes in one behaviour

\* LayoutResult<T>.
Ok(v) == [ok |-> TRUE, err |-> "", self |-> v]
Err(message, v) == [ok |-> FALSE, err |-> message, self |-> v]

\* error!(message): leaves the enclosing function with the error.
error(message, self) == Err(message, self)

\* The errors of the code outside tree.rs.
TextError == "text layout failed"
FuncError == "function layout failed"
LineError == "line layouter failed"

\* PageStyle: dimensions and margins (one length stands for each).
PageStyle(dimensions, margin) == [dimensions |-> dimensions, margin |-> margin]
PageStyles == {PageStyle(210, 20), PageStyle(148, 10)}
margins(page) == page.margin
unpadded(dimensions, padding) == dimensions - 2 * padding

\* TextStyle: the font variant (style, weight), the bolder flag, the
\* fallback list and the line spacing.
TextStyle(style, weight, bolder, fallback, spacing) ==
    [style |-> style, weight |-> weight, bolder |-> bolder,
     fallback |-> fallback, spacing |-> spacing]
TextStyles ==
    {TextStyle("Normal", 400, FALSE, <<"serif">>, 1),
     TextStyle("Normal", 400, FALSE, <<"monospace", "serif">>, 2)}
line_spacing(text) == text.spacing

\* FontStyle::toggle.
toggle(style) == IF style = "Normal" THEN "Italic" ELSE "Normal"

Alignments == {"Origin", "Center"}
AxesSet == {"LeftToRight", "TopToBottom"}
SpecificAxes == {"Primary", "Secondary"}

LayoutSpace(dimensions, padding, expansion) ==
    [dimensions |-> dimensions, padding |-> padding, expansion |-> expansion]

\* LineLayouter: the spaces it lays out into, its axes and line spacing,
\* whether the current space holds anything, and the spaces finished.
LineLayouter_new(lctx) ==
    [spaces |-> lctx.spaces, axes |-> lctx.axes,
     line_spacing |-> lctx.line_spacing, used |-> FALSE, finished |-> 0]

LineLayouter_fail(okay, l) == IF okay THEN Ok(l) ELSE Err(LineError, l)

add(l, okay) == LineLayouter_fail(okay, [l EXCEPT !.used = TRUE])
add_multiple(l, okay) == LineLayouter_fail(okay, [l EXCEPT !.used = TRUE])
add_primary_spacing(l) == l
add_secondary_spacing(l, okay) == LineLayouter_fail(okay, l)
finish_line(l, okay) == LineLayouter_fail(okay, l)
finish_space(l, okay) ==
    LineLayouter_fail(okay, [l EXCEPT !.used = FALSE,
                                      !.finished = @ + 1])
set_line_spacing(l, spacing) == [l EXCEPT !.line_spacing = spacing]
set_spaces(l, spaces) == [l EXCEPT !.spaces = spaces]
set_axes(l, axes, okay) == LineLayouter_fail(okay, [l EXCEPT !.axes = axes])
remaining(l) == l.spaces
LineLayouter_finish(l, okay) ==
    LineLayouter_fail(okay, [l EXCEPT !.used = FALSE,
                                      !.finished = @ + 1])


\* LayoutContext: what tree.rs reads of it.
LayoutContext(style, spaces, base, axes, alignment, nested) ==
    [style |-> style, spaces |-> spaces, base |-> base, axes |-> axes,
     alignment |-> alignment, repeat |-> FALSE, nested |-> nested,
     debug |-> FALSE]

\* TreeLayouter::new.
TreeLayouter_new(ctx) ==
    [layouter |-> LineLayouter_new(
                     [spaces |-> ctx.spaces, axes |-> ctx.axes,
                      alignment |-> ctx.alignment, repeat |-> ctx.repeat,
                      debug |-> ctx.debug,
                      line_spacing |-> line_spacing(ctx.style.text)]),
     style |-> ctx.style,
     ctx |-> ctx]

\* self.layouter.<call>(..)?: the line layouter as the call left it, or
\* the call's error passed on.
with_layouter(self, r) ==
    IF r.ok THEN Ok([self EXCEPT !.layouter = r.self]) ELSE Err(r.err, self)

\* TreeLayouter::layout_text: the text is laid out (outside tree.rs), then
\* added.
layout_text(self, textOk, okay) ==
    IF ~textOk THEN Err(TextError, self)
    ELSE with_layouter(self, add(self.layouter, okay))

\* TreeLayouter::layout_space.
layout_space(self) == [self EXCEPT !.layouter = add_primary_spacing(@)]

\* TreeLayouter::layout_paragraph.
layout_paragraph(self, okay) ==
    with_layouter(self, add_secondary_spacing(self.layouter, okay))

\* Node::ToggleItalic.
toggle_italic(self) == [self EXCEPT !.style.text.style = toggle(@)]

\* Node::ToggleBolder.
toggle_bolder(self) ==
    [self EXCEPT !.style.text.weight =
                     @ + 300 * (IF self.style.text.bolder THEN -1 ELSE 1),
                 !.style.text.bolder = ~@]

\* Node::ToggleMonospace.
toggle_monospace(self) ==
    LET list == self.style.text.fallback
    IN [self EXCEPT !.style.text.fallback =
            IF list # <<>> /\ Head(list) = "monospace"
            THEN Tail(list) ELSE <<"monospace">> \o list]

\* The context a function of the tree is laid out in.
func_context(self) ==
    [self.ctx EXCEPT !.style = self.style,
                     !.spaces = remaining(self.layouter),
                     !.nested = TRUE,
                     !.debug = FALSE]

PageBreakNested == "page break cannot be issued from nested context"
PageStyleNested == "page style cannot be altered in nested context"

\* A variant that finishes the space before it looks at the context.
break_page_unchecked(self, okay) ==
    LET r == with_layouter(self, finish_space(self.layouter, okay))
    IN IF r.ok /\ self.ctx.nested THEN error(PageBreakNested, r.self) ELSE r

\* Command::BreakPage.
break_page(self, okay) ==
    IF self.ctx.nested
    THEN error(PageBreakNested, self)
    ELSE with_layouter(self, finish_space(self.layouter, okay))

\* Command::SetTextStyle.
set_text_style(self, style) ==
    [self EXCEPT !.layouter = set_line_spacing(@, line_spacing(style)),
                 !.style.text = style]

\* Command::SetPageStyle.
set_page_style(self, style) ==
    IF self.ctx.nested
    THEN error(PageStyleNested, self)
    ELSE Ok([self EXCEPT
               !.style.page = style,
               !.ctx.base = unpadded(style.dimensions, margins(style)),
               !.layouter = set_spaces(@,
                   <<LayoutSpace(style.dimensions, margins(style), TRUE)>>)])

\* Command::SetAxes.
set_tree_axes(self, axes, okay) ==
    LET r == set_axes(self.layouter, axes, okay)
    IN IF r.ok
       THEN Ok([self EXCEPT !.layouter = r.self, !.ctx.axes = axes])
       ELSE Err(r.err, self)


-----------------------------------------------------------------------------
(* layout(tree, ctx) as a state machine: one step per pass of a loop body  *)
(* of TreeLayouter::layout (over the nodes of a tree) or of layout_func    *)
(* (over the commands of a function).  The node or command of a pass is    *)
(* drawn when the pass happens; a loop is kept as the number of passes it  *)
(* has left.                                                               *)

Running == [status |-> "running", err |-> ""]
Returned(r) == [status |-> IF r.ok THEN "ok" ELSE "err", err |-> r.err]

Frame(fn, left) == [fn |-> fn, left |-> left]
Item(item, arg) == [item |-> item, arg |-> arg]

\* The contexts layout is called with: the page's own, or a nested one.
Contexts ==
    {LayoutContext([text |-> text, page |-> page],
                   <<IF nested
                     THEN LayoutSpace(unpadded(page.dimensions, margins(page)),
                                      0, FALSE)
                     ELSE LayoutSpace(page.dimensions, margins(page), TRUE)>>,
                   unpadded(page.dimensions, margins(page)),
                   "LeftToRight", "Origin", nested) :
        text \in {TextStyle("Normal", 400, FALSE, <<"serif">>, 1)},
        page \in {PageStyle(210, 20)}, nested \in BOOLEAN}

InitTree ==
    /\ node = <<>>
    /\ content = NoContent
    /\ args = <<>>
    /\ res = NoRes
    /\ links = <<>>
    /\ out = NoOut
    /\ \E ctx \in Contexts : this = TreeLayouter_new(ctx)
    /\ \E n \in 0..MaxNodes : stack = <<Frame("layout", n)>>
    /\ cur = Item("none", <<>>)
    /\ result = Running

\* The loop under way is in function fn and has a pass left.
InLoop(fn) ==
    /\ result = Running
    /\ stack # <<>>
    /\ stack[Len(stack)].fn = fn
    /\ stack[Len(stack)].left > 0

\* A pass of the loop body on `item` with outcome r; `calls` is the loop
\* the pass enters, if any.  An error leaves every loop under way: each
\* caller passes it on with `?`.
Pass(item, arg, r, calls) ==
    /\ cur' = Item(item, arg)
    /\ this' = r.self
    /\ stack' = [stack EXCEPT ![Len(stack)].left = @ - 1]
                   \o (IF r.ok THEN calls ELSE <<>>)
    /\ result' = IF r.ok THEN Running ELSE Returned(r)
    /\ UNCHANGED nodeVars

Node_Text ==
    /\ InLoop("layout")
    /\ \E textOk, okay \in BOOLEAN :
          Pass("Text", <<>>, layout_text(this, textOk, okay), <<>>)

Node_Space ==
    /\ InLoop("layout")
    /\ Pass("Space", <<>>, Ok(layout_space(this)), <<>>)

Node_Newline ==
    /\ InLoop("layout")
    /\ \E okay \in BOOLEAN :
          Pass("Newline", <<>>, layout_paragraph(this, okay), <<>>)

Node_ToggleItalic ==
    /\ InLoop("layout")
    /\ Pass("ToggleItalic", <<>>, Ok(toggle_italic(this)), <<>>)

Node_ToggleBolder ==
    /\ InLoop("layout")
    /\ Pass("ToggleBolder", <<>>, Ok(toggle_bolder(this)), <<>>)

Node_ToggleMonospace ==
    /\ InLoop("layout")
    /\ Pass("ToggleMonospace", <<>>, Ok(toggle_monospace(this)), <<>>)

\* Node::Func: the function is laid out in func_context(self) (outside
\* tree.rs) and fails or yields its commands, which layout_func loops over.
Node_Func ==
    /\ InLoop("layout")
    /\ Len(stack) < MaxDepth
    /\ func_context(this).nested
    /\ \/ Pass("Func", <<>>, Err(FuncError, this), <<>>)
       \/ \E n \in 0..MaxCommands :
             Pass("Func", <<>>, Ok(this), <<Frame("layout_func", n)>>)

Command_LayoutTree ==
    /\ InLoop("layout_func")
    /\ Len(stack) < MaxDepth
    /\ \E n \in 0..MaxNodes :
          Pass("LayoutTree", <<>>, Ok(this), <<Frame("layout", n)>>)

Command_Add ==
    /\ InLoop("layout_func")
    /\ \E okay \in BOOLEAN :
          Pass("Add", <<>>, with_layouter(this, add(this.layouter, okay)),
               <<>>)

Command_AddMultiple ==
    /\ InLoop("layout_func")
    /\ \E okay \in BOOLEAN :
          Pass("AddMultiple", <<>>,
               with_layouter(this, add_multiple(this.layouter, okay)), <<>>)

Command_SpacingFunc ==
    /\ InLoop("layout_func")
    /\ \E axis \in SpecificAxes, okay \in BOOLEAN :
          Pass("SpacingFunc", axis,
               IF axis = "Primary"
               THEN Ok([this EXCEPT !.layouter = add_primary_spacing(@)])
               ELSE with_layouter(this,
                        add_secondary_spacing(this.layouter, okay)),
               <<>>)

Command_FinishLine ==
    /\ InLoop("layout_func")
    /\ \E okay \in BOOLEAN :
          Pass("FinishLine", <<>>,
               with_layouter(this, finish_line(this.layouter, okay)), <<>>)

Command_FinishSpace ==
    /\ InLoop("layout_func")
    /\ this.layouter.finished < MaxFinished
    /\ \E okay \in BOOLEAN :
          Pass("FinishSpace", <<>>,
               with_layouter(this, finish_space(this.layouter, okay)), <<>>)

Command_BreakParagraph ==
    /\ InLoop("layout_func")
    /\ \E okay \in BOOLEAN :
          Pass("BreakParagraph", <<>>, layout_paragraph(this, okay), <<>>)

Command_BreakPage ==
    /\ InLoop("layout_func")
    /\ this.layouter.finished < MaxFinished
    /\ \E okay \in BOOLEAN :
          Pass("BreakPage", <<>>, break_page(this, okay), <<>>)

Command_SetTextStyle ==
    /\ InLoop("layout_func")
    /\ \E style \in TextStyles :
          Pass("SetTextStyle", style, Ok(set_text_style(this, style)), <<>>)

Command_SetPageStyle ==
    /\ InLoop("layout_func")
    /\ \E style \in PageStyles :
          Pass("SetPageStyle", style, set_page_style(this, style), <<>>)

Command_SetAlignment ==
    /\ InLoop("layout_func")
    /\ \E alignment \in Alignments :
          Pass("SetAlignment", alignment,
               Ok([this EXCEPT !.ctx.alignment = alignment]), <<>>)

Command_SetAxes ==
    /\ InLoop("layout_func")
    /\ \E axes \in AxesSet, okay \in BOOLEAN :
          Pass("SetAxes", axes, set_tree_axes(this, axes, okay), <<>>)

\* A loop has no pass left: layout or layout_func returns Ok(()) to its
\* caller.
Return ==
    /\ result = Running
    /\ stack # <<>>
    /\ stack[Len(stack)].left = 0
    /\ stack' = SubSeq(stack, 1, Len(stack) - 1)
    /\ UNCHANGED <<this, cur, result>>
    /\ UNCHANGED nodeVars

\* layouter.finish(): the outermost layout has returned Ok.
Finish ==
    /\ result = Running
    /\ stack = <<>>
    /\ \E okay \in BOOLEAN :
         LET r == with_layouter(this, LineLayouter_finish(this.layouter, okay))
         IN /\ this' = r.self
            /\ result' = Returned(r)
    /\ UNCHANGED <<stack, cur>>
    /\ UNCHANGED nodeVars

NextTree ==
    \/ Node_Text \/ Node_Space \/ Node_Newline
    \/ Node_ToggleItalic \/ Node_ToggleBolder \/ Node_ToggleMonospace
    \/ Node_Func
    \/ Command_LayoutTree \/ Command_Add \/ Command_AddMultiple
    \/ Command_SpacingFunc \/ Command_FinishLine \/ Command_FinishSpace
    \/ Command_BreakParagraph \/ Command_BreakPage
    \/ Command_SetTextStyle \/ Command_SetPageStyle
    \/ Command_SetAlignment \/ Command_SetAxes
    \/ Return \/ Finish

SpecTree == InitTree /\ [][NextTree]_vars


-----------------------------------------------------------------------------
(* Page-level commands and the layouter's context.                         *)

\* The step is a pass of the loop under way, on a node or command `item`.
IsPass(item) ==
    /\ result = Running
    /\ stack # <<>>
    /\ Len(stack') >= Len(stack)
    /\ stack'[Len(stack)].left = stack[Len(stack)].left - 1
    /\ cur'.item = item

Failed(message) == [status |-> "err", err |-> message]

\* Passes that some loop under way still has to make.
PassesLeft == {k \in 1..Len(stack) : stack[k].left > 0}

(* C12.  Page-level commands are rejected in a nested context with the     *)
(* state unchanged: when the layouter's context is nested, BreakPage       *)
(* yields an error without finishing the current space and SetPageStyle    *)
(* yields an error without changing the page style, the base dimensions or *)
(* the layout spaces; when the context is not nested, BreakPage finishes   *)
(* the current space (or passes on the line layouter's own error) and      *)
(* SetPageStyle installs the style, its unpadded dimensions as the base    *)
(* and the one page space.  Nothing is processed after an error.           *)
C12_PageCommandsRejectedWhenNested ==
    [][/\ IsPass("BreakPage") =>
            IF this.ctx.nested
            THEN /\ result' = Failed(PageBreakNested)
                 /\ this'.layouter = this.layouter
                 /\ this' = this
            ELSE \/ /\ result' = Running
                    /\ this' = [this EXCEPT !.layouter.finished = @ + 1,
                                            !.layouter.used = FALSE]
                 \/ /\ result' = Failed(LineError)
                    /\ this' = this
       /\ IsPass("SetPageStyle") =>
            IF this.ctx.nested
            THEN /\ result' = Failed(PageStyleNested)
                 /\ this'.style.page = this.style.page
                 /\ this'.ctx.base = this.ctx.base
                 /\ this'.layouter.spaces = this.layouter.spaces
                 /\ this' = this
            ELSE LET style == cur'.arg
                 IN /\ result' = Running
                    /\ style \in PageStyles
                    /\ this'.style.page = style
                    /\ this'.ctx.base = style.dimensions - 2 * style.margin
                    /\ this'.layouter.spaces =
                         <<[dimensions |-> style.dimensions,
                            padding |-> style.margin, expansion |-> TRUE]>>
       /\ result.status = "err" => UNCHANGED treeVars
      ]_vars

\* A page break from a function's commands in a nested layouter: the error
\* is returned, no space is finished, and a command of the function and a
\* node of the tree are left unprocessed.
C12_Witness ==
    /\ this.ctx.nested
    /\ cur.item = "BreakPage"
    /\ result = Failed(PageBreakNested)
    /\ this.layouter.finished = 0
    /\ Len(stack) = 2 /\ PassesLeft = {1, 2}

====
